---- MODULE Spec2Model ----
(***************************************************************************)
(* chess-tracker: the spaced-repetition scheduler (compute_srs.py), the    *)
(* attempt sources that feed it (serve.py /log, sync_attempts.py) and the  *)
(* driver that runs it (update.py), as a state machine over the two SQLite *)
(* tables `attempts` and `srs`.                                            *)
(*                                                                         *)
(* Encodings                                                               *)
(*   puzzle id     an index into PuzzlePool, which lists the ids' character*)
(*                 codes in the order SQLite's GROUP BY puzzle_id returns  *)
(*                 them (ascending, BINARY collation)                      *)
(*   attempted_at  [ok, sec, frac]: the ISO-8601 UTC text of second `sec`  *)
(*                 with sub-second part `frac` ("...SSZ" when frac = 0,    *)
(*                 "...SS.ffffffZ" otherwise); ok = FALSE is a text that   *)
(*                 datetime.fromisoformat rejects                          *)
(*   local date    the day number of a calendar date                       *)
(*   env text      a cadence setting is the sequence of its comma-separated*)
(*                 parts, a part being the number it spells when           *)
(*                 str.isdigit() holds and NonDigit otherwise              *)
(***************************************************************************)
EXTENDS Integers, Sequences, FiniteSets, TLC

\* ------------------------------------------------------------------ bounds
NumPuzzles  == 2    \* puzzles of the pool in play
MaxClock    == 3    \* last second of the wall clock
MaxAttempts == 3    \* rows the attempts table may hold
MaxFeed     == 1    \* entries one fetch of the remote activity feed streams
MaxStreak   == 2    \* largest success_streak a run may write
MaxFrac     == 1    \* sub-second parts 0..MaxFrac of a remote timestamp
SecsPerDay  == 2    \* seconds in a calendar day (time scale of the model)
LocalOffset == 1    \* the process's local UTC offset, in seconds
MaxBuckets  == 10   \* largest SRS_STAGGER_BUCKETS of the seeding runs

\* ------------------------------------------------------- values and inputs
NonDigit == -1
Unset    == "unset"
None     == [none |-> TRUE]

PuzzlePool ==
    << <<48, 48, 48, 48, 56>>,      \* "00008"
       <<48, 48, 48, 57, 66>>,      \* "0009B"
       <<48, 48, 48, 104, 102>>,    \* "000hf"
       <<48, 48, 115, 72, 120>>,    \* "00sHx"
       <<122, 122, 122, 122, 122>> >>  \* "zzzzz"

Puzzles == 1..NumPuzzles

Results == {"win", "loss"}

\* The text of SRS_STAGGER_BUCKETS: no such variable, an integer literal,
\* or a text int() rejects.
NoInt      == [set |-> FALSE, int |-> FALSE, val |-> 0]
IntText(n) == [set |-> TRUE, int |-> TRUE, val |-> n]

Env(track_wins, reset_on_fail, seed_mode, loss_cadence, win_cadence, stagger_buckets) ==
    [SRS_TRACK_WINS |-> track_wins, SRS_RESET_ON_FAIL |-> reset_on_fail,
     SRS_SEED_MODE |-> seed_mode, SRS_LOSS_CADENCE |-> loss_cadence,
     SRS_WIN_CADENCE |-> win_cadence, SRS_STAGGER_BUCKETS |-> stagger_buckets]

\* The process environments the model starts compute_srs in.  An unset or
\* empty cadence variable splits into the single part "", which is no digit.
Environments ==
    { Env(Unset, Unset, Unset, <<NonDigit>>, <<NonDigit>>, NoInt),
      Env(Unset, Unset, Unset, <<2, NonDigit, 5>>, <<NonDigit>>, NoInt),
      Env(Unset, "0", "stagger", <<0, 3>>, <<NonDigit>>, IntText(3)),
      Env("1", Unset, Unset, <<2, NonDigit, 5>>, <<NonDigit, 3>>, NoInt),
      Env("1", "0", "stagger", <<NonDigit>>, <<NonDigit>>, IntText(-2)),
      Env(Unset, Unset, "weekly", <<3, NonDigit>>, <<NonDigit>>, NoInt) }

VARIABLES
    environ,           \* os.environ as compute_srs read it at import
    TRACK_WINS,        \* compute_srs.TRACK_WINS
    LOSS_CADENCE,      \* compute_srs.LOSS_CADENCE
    WIN_CADENCE,       \* compute_srs.WIN_CADENCE
    RESET_ON_FAIL,     \* compute_srs.RESET_ON_FAIL
    SEED_MODE,         \* compute_srs.SEED_MODE
    STAGGER_BUCKETS,   \* compute_srs.STAGGER_BUCKETS
    clock,             \* the wall clock, in seconds (UTC)
    attempts,          \* table attempts: set of rows
    srs,               \* table srs: puzzle -> row or None
    updater,           \* update.py main(): "idle", or "synced" between steps 2 and 3
    snapshot,          \* run(): the rows line 132 fetched, while a full run is under way
    srs_rows,          \* table srs as the set of its rows (statement level)
    syncer,            \* sync_attempts.run(): position, tries and last_ms
    lastRun            \* outcome of the compute_srs.run() of the last step, and
                       \* the request and response of the step if it served /log

config == <<TRACK_WINS, LOSS_CADENCE, WIN_CADENCE, RESET_ON_FAIL, SEED_MODE,
            STAGGER_BUCKETS>>
aux == <<environ, snapshot, srs_rows, syncer>>
vars == <<environ, TRACK_WINS, LOSS_CADENCE, WIN_CADENCE, RESET_ON_FAIL, SEED_MODE,
          STAGGER_BUCKETS, clock, attempts, srs, updater, snapshot, srs_rows,
          syncer, lastRun>>

\* ---------------------------------------------------------- env helpers
\* v = os.getenv(name, str(default)).lower(); v in ("1","true","yes","on")
_env_bool(raw, default) ==
    LET v == IF raw = Unset THEN (IF default THEN "true" ELSE "false") ELSE raw
    IN  v \in {"1", "true", "yes", "on"}

_env_str(raw, default) ==
    IF raw \notin {Unset, ""} THEN raw ELSE default

RECURSIVE DigitParts(_)
DigitParts(parts) ==
    IF parts = <<>> THEN <<>>
    ELSE IF Head(parts) # NonDigit
         THEN <<Head(parts)>> \o DigitParts(Tail(parts))
         ELSE DigitParts(Tail(parts))

_parse_cadence(s, fallback) ==
    LET out == DigitParts(s)
    IN  IF out # <<>> THEN out ELSE fallback

_env_int(raw, default) ==
    IF ~raw.set THEN default
    ELSE IF raw.int THEN raw.val ELSE default

DefaultLossCadence == <<1, 2, 4, 7, 14, 30, 60, 90>>
DefaultWinCadence  == <<2, 4, 7, 14, 30, 60, 90>>
DefaultStaggerBuckets == 7

\* `if tries <= 3` of sync_attempts.run()
MaxRetries == 3

\* ------------------------------------------------------------ time helpers
Malformed == [ok |-> FALSE, sec |-> 0, frac |-> 0]

Stamp(sec, frac) == [ok |-> TRUE, sec |-> sec, frac |-> frac]

\* Order of the attempted_at texts under SQLite's BINARY collation: the
\* seconds decide; within one second "...SSZ" sorts after "...SS.ffffffZ"
\* ('Z' > '.'); a text that is no ISO timestamp ("n/a") sorts after every
\* text that starts with a digit.
IsoLess(a, b) ==
    IF ~a.ok THEN FALSE
    ELSE IF ~b.ok THEN TRUE
    ELSE IF a.sec # b.sec THEN a.sec < b.sec
    ELSE IF a.frac = 0 THEN FALSE
    ELSE IF b.frac = 0 THEN TRUE
    ELSE a.frac < b.frac

\* Mutant: the date is taken in UTC (astimezone() left out).
_local_date_of_iso_utc(iso_ts) == iso_ts.sec \div SecsPerDay

\* datetime.fromisoformat(...).astimezone().strftime("%Y-%m-%d")
_local_date_of_iso(iso_ts) == (iso_ts.sec + LocalOffset) \div SecsPerDay

\* SQLite date(:base, '+N day')
DateAdd(base, n) == base + n

\* ------------------------------------------------------------------- SQL
Row(puzzle_id, attempted_at, result) ==
    [puzzle_id |-> puzzle_id, attempted_at |-> attempted_at, result |-> result]

AttemptsOf(rows, pid) == {a \in rows : a.puzzle_id = pid}

\* UNIQUE (user_id, puzzle_id, attempted_at) of table attempts
HasKey(rows, pid, at) ==
    \E a \in rows : a.puzzle_id = pid /\ a.attempted_at = at

\* Mutant: the subquery orders ascending, so last_result is the result of the
\* puzzle's first attempt next to the MAX(attempted_at) of its last.
SQL_LAST_ATTEMPT_ascending(rows, pid) ==
    LET grp   == AttemptsOf(rows, pid)
        last  == CHOOSE a \in grp :
                     \A b \in grp : b = a \/ IsoLess(b.attempted_at, a.attempted_at)
        first == CHOOSE a \in grp :
                     \A b \in grp : b = a \/ IsoLess(a.attempted_at, b.attempted_at)
    IN  [puzzle_id |-> pid, last_attempt |-> last.attempted_at,
         last_result |-> first.result]

\* One row of SQL_LAST_ATTEMPT: MAX(attempted_at) of the puzzle's group and
\* the result of the row ORDER BY attempted_at DESC LIMIT 1.
SQL_LAST_ATTEMPT(rows, pid) ==
    LET grp  == AttemptsOf(rows, pid)
        last == CHOOSE a \in grp :
                    \A b \in grp : b = a \/ IsoLess(b.attempted_at, a.attempted_at)
    IN  [puzzle_id |-> pid, last_attempt |-> last.attempted_at,
         last_result |-> last.result]

SQL_GET_EXISTING(table, pid) == table[pid]

\* Mutant: ON CONFLICT ... DO UPDATE leaves last_reviewed out of its SET list.
SQL_UPSERT_SRS_keeps_reviewed(table, puzzle_id, last_result, streak, interval_days, due_date, last_reviewed) ==
    [table EXCEPT ![puzzle_id] =
        [success_streak |-> streak, interval_days |-> interval_days,
         last_result |-> last_result,
         last_reviewed |-> IF table[puzzle_id] = None THEN last_reviewed
                           ELSE table[puzzle_id].last_reviewed,
         due_date |-> due_date]]

\* INSERT ... ON CONFLICT(user_id, puzzle_id) DO UPDATE SET <all five fields>
SQL_UPSERT_SRS(table, puzzle_id, last_result, streak, interval_days, due_date, last_reviewed) ==
    [table EXCEPT ![puzzle_id] =
        [success_streak |-> streak, interval_days |-> interval_days,
         last_result |-> last_result, last_reviewed |-> last_reviewed,
         due_date |-> due_date]]

\* Mutant: the DELETE's WHERE clause matches no row.
SQL_DELETE_SRS_matches_nothing(table, pid) == table

SQL_DELETE_SRS(table, pid) == [table EXCEPT ![pid] = None]

\* ---------------------------------------------------------------- helpers
Mask31 == 2147483647

\* (base * 131 + ord(ch)) & 0x7fffffff, computed in halves of 16 bits so that
\* no intermediate value leaves the 32-bit range
HashStep(base, ch) ==
    LET hi == base \div 65536
        lo == base % 65536
        t1 == ((hi * 131) % 32768) * 65536
        t2 == lo * 131 + ch
    IN  IF t1 > Mask31 - t2 THEN t1 - (Mask31 - t2) - 1 ELSE t1 + t2

RECURSIVE HashFrom(_, _)
HashFrom(base, chars) ==
    IF chars = <<>> THEN base
    ELSE HashFrom(HashStep(base, Head(chars)), Tail(chars))

Max(a, b) == IF a >= b THEN a ELSE b
Min(a, b) == IF a <= b THEN a ELSE b

\* Mutant: the cadence index is the streak itself, not the streak minus one.
_next_interval_days_off_by_one(streak, for_win) ==
    LET cad == IF for_win /\ TRACK_WINS THEN WIN_CADENCE ELSE LOSS_CADENCE
        idx == Min(Max(streak, 1), Len(cad) - 1)
    IN  cad[idx + 1]

\* Mutant: the interval is always looked up in the loss cadence.
_next_interval_days_loss_only(streak, for_win) ==
    LET cad == LOSS_CADENCE
        idx == Min(Max(streak, 1) - 1, Len(cad) - 1)
    IN  cad[idx + 1]

\* Mutant: past the end of the cadence the index wraps round to its start.
_next_interval_days_wrapping(streak, for_win) ==
    LET cad == IF for_win /\ TRACK_WINS THEN WIN_CADENCE ELSE LOSS_CADENCE
        idx == (Max(streak, 1) - 1) % Len(cad)
    IN  cad[idx + 1]

_next_interval_days(streak, for_win) ==
    LET cad == IF for_win /\ TRACK_WINS THEN WIN_CADENCE ELSE LOSS_CADENCE
        idx == Min(Max(streak, 1) - 1, Len(cad) - 1)
    IN  cad[idx + 1]

\* Mutant: the first loss is seeded from the loss cadence table.
_seed_offset_days_from_cadence(puzzle_id) == _next_interval_days(1, FALSE)

\* Mutant: the stagger bucket is taken from the size of table attempts.
_seed_offset_days_by_load(puzzle_id) ==
    IF SEED_MODE = "stagger"
    THEN LET r == Cardinality(attempts) % Max(STAGGER_BUCKETS, 1)
         IN  IF r # 0 THEN r ELSE 1
    ELSE 1

\* Mutant: bucket 0 is not remapped to 1 (the `or 1` left out).
_seed_offset_days_no_remap(puzzle_id) ==
    IF SEED_MODE = "stagger"
    THEN HashFrom(0, PuzzlePool[puzzle_id]) % Max(STAGGER_BUCKETS, 1)
    ELSE 1

_seed_offset_days(puzzle_id) ==
    IF SEED_MODE = "stagger"
    THEN LET base == HashFrom(0, PuzzlePool[puzzle_id])
             r    == base % Max(STAGGER_BUCKETS, 1)
         IN  IF r # 0 THEN r ELSE 1
    ELSE 1

Update(streak, interval, base_date, is_win) ==
    [streak |-> streak, interval |-> interval, base_date |-> base_date,
     is_win |-> is_win]

\* Mutant: a loss resets the streak whatever RESET_ON_FAIL says.
_calc_update_always_resets(existing, last_result, last_attempt_local_date, puzzle_id) ==
    LET is_win == (last_result = "win")
    IN  IF existing # None
        THEN LET streak0 == existing.success_streak
             IN  IF is_win /\ ~TRACK_WINS THEN None
                 ELSE LET streak == IF is_win THEN streak0 + 1 ELSE 0
                          arg == IF is_win /\ TRACK_WINS THEN streak
                                 ELSE IF is_win THEN 1
                                 ELSE IF streak # 0 THEN streak ELSE 1
                          interval == _next_interval_days(arg, is_win)
                      IN  Update(streak, interval, last_attempt_local_date, is_win)
        ELSE IF is_win /\ ~TRACK_WINS THEN None
             ELSE LET streak == IF is_win THEN 1 ELSE 0
                      interval == IF ~is_win THEN _seed_offset_days(puzzle_id)
                                  ELSE _next_interval_days(
                                           IF streak # 0 THEN streak ELSE 1, TRUE)
                  IN  Update(streak, interval, last_attempt_local_date, is_win)

\* Mutant: a loss on an existing entry moves one step along the loss cadence
\* (the streak counts the attempts since the entry was made).
_calc_update_loss_advances(existing, last_result, last_attempt_local_date, puzzle_id) ==
    LET is_win == (last_result = "win")
    IN  IF existing # None
        THEN LET streak0 == existing.success_streak
             IN  IF is_win /\ ~TRACK_WINS THEN None
                 ELSE LET streak == streak0 + 1
                          interval == _next_interval_days(streak, is_win)
                      IN  Update(streak, interval, last_attempt_local_date, is_win)
        ELSE IF is_win /\ ~TRACK_WINS THEN None
             ELSE LET streak == IF is_win THEN 1 ELSE 0
                      interval == IF ~is_win THEN _seed_offset_days(puzzle_id)
                                  ELSE _next_interval_days(
                                           IF streak # 0 THEN streak ELSE 1, TRUE)
                  IN  Update(streak, interval, last_attempt_local_date, is_win)

_calc_update(existing, last_result, last_attempt_local_date, puzzle_id) ==
    LET is_win == (last_result = "win")
    IN  IF existing # None
        THEN LET streak0 == existing.success_streak
             IN  IF is_win /\ ~TRACK_WINS THEN None
                 ELSE LET streak == IF is_win THEN streak0 + 1
                                    ELSE IF RESET_ON_FAIL THEN 0
                                    ELSE Max(streak0 - 1, 0)
                          arg == IF is_win /\ TRACK_WINS THEN streak
                                 ELSE IF is_win THEN 1
                                 ELSE IF streak # 0 THEN streak ELSE 1
                          interval == _next_interval_days(arg, is_win)
                      IN  Update(streak, interval, last_attempt_local_date, is_win)
        ELSE IF is_win /\ ~TRACK_WINS THEN None
             ELSE LET streak == IF is_win THEN 1 ELSE 0
                      interval == IF ~is_win THEN _seed_offset_days(puzzle_id)
                                  ELSE _next_interval_days(
                                           IF streak # 0 THEN streak ELSE 1, TRUE)
                  IN  Update(streak, interval, last_attempt_local_date, is_win)

\* ------------------------------------------------------------ compute_srs
Some(x) == [none |-> FALSE, val |-> x]

\* Mutant: `pid not in changed_pids` never holds, so the filter skips nothing.
InList_matches_all(x, list) == TRUE

InList(x, list) == \E k \in DOMAIN list : list[k] = x

\* Mutant: the loop lacks the untracked-win branch of lines 143-147 and
\* relies on _calc_update returning None.
Decide_without_win_branch(existing, last_result, last_attempt_date, pid) ==
    LET res == _calc_update(existing, last_result, last_attempt_date, pid)
    IN  IF res = None THEN [op |-> "NOOP"]
        ELSE [op |-> "UPSERT", res |-> res]

\* Mutant: the untracked-win branch deletes and counts without looking for an
\* existing row (line 144 left out).
Decide_deletes_unseen(existing, last_result, last_attempt_date, pid) ==
    IF last_result = "win" /\ ~TRACK_WINS
    THEN [op |-> "DELETE"]
    ELSE LET res == _calc_update(existing, last_result, last_attempt_date, pid)
         IN  IF res = None THEN [op |-> "NOOP"]
             ELSE [op |-> "UPSERT", res |-> res]

\* The decision of one iteration of run()'s loop, lines 142-152.
Decide(existing, last_result, last_attempt_date, pid) ==
    IF last_result = "win" /\ ~TRACK_WINS
    THEN IF existing # None THEN [op |-> "DELETE"] ELSE [op |-> "NOOP"]
    ELSE LET res == _calc_update(existing, last_result, last_attempt_date, pid)
         IN  IF res = None THEN [op |-> "NOOP"]
             ELSE [op |-> "UPSERT", res |-> res]

\* The statements one iteration executes on the connection, lines 145, 154-165.
Apply(work, pid, last_result, d) ==
    IF d.op = "DELETE" THEN SQL_DELETE_SRS(work, pid)
    ELSE IF d.op = "UPSERT"
         THEN LET due_val == DateAdd(d.res.base_date, d.res.interval)
              IN  SQL_UPSERT_SRS(work, pid, last_result, d.res.streak,
                                 d.res.interval, due_val, d.res.base_date)
         ELSE work

Outcome(status, at, work, updated, deleted) ==
    [status |-> status, at |-> at, work |-> work, updated |-> updated,
     deleted |-> deleted]

\* The loop of run() over the rows of SQL_LAST_ATTEMPT from row i on, `work`
\* being the srs table as the open transaction sees it.  fail_at names the
\* puzzle at whose DELETE or UPSERT the store raises (0: the store never does).
RECURSIVE RunLoop(_, _, _, _, _, _, _)
RunLoop(i, rows, work, changed_pids, fail_at, updated, deleted) ==
    IF i > NumPuzzles THEN Outcome("ok", 0, work, updated, deleted)
    ELSE IF AttemptsOf(rows, i) = {}
            \/ (changed_pids # None /\ ~InList(i, changed_pids.val))
    THEN RunLoop(i + 1, rows, work, changed_pids, fail_at, updated, deleted)
    ELSE LET r == SQL_LAST_ATTEMPT(rows, i)
             last_result == r.last_result
         IN  IF ~r.last_attempt.ok
             THEN Outcome("ValueError", i, work, updated, deleted)
             ELSE LET d == Decide(SQL_GET_EXISTING(work, i), last_result,
                                  _local_date_of_iso(r.last_attempt), i)
                  IN  IF d.op # "NOOP" /\ fail_at = i
                      THEN Outcome("OperationalError", i, work, updated, deleted)
                      ELSE RunLoop(i + 1, rows, Apply(work, i, last_result, d),
                                   changed_pids, fail_at,
                                   updated + (IF d.op = "UPSERT" THEN 1 ELSE 0),
                                   deleted + (IF d.op = "DELETE" THEN 1 ELSE 0))

\* Mutant: the connection commits statement by statement (eng.connect() in
\* autocommit in place of eng.begin()), so a failure keeps the writes before it.
run_autocommit(rows, table, changed_pids, fail_at) ==
    LET out == RunLoop(1, rows, table, changed_pids, fail_at, 0, 0)
    IN  [status |-> out.status, at |-> out.at,
         srs |-> out.work,
         updated |-> IF out.status = "ok" THEN out.updated ELSE 0,
         deleted |-> IF out.status = "ok" THEN out.deleted ELSE 0]

\* run(): the loop inside `with eng.begin() as conn`, which commits when the
\* block ends and rolls back when an exception leaves it.
run(rows, table, changed_pids, fail_at) ==
    LET out == RunLoop(1, rows, table, changed_pids, fail_at, 0, 0)
    IN  [status |-> out.status, at |-> out.at,
         srs |-> IF out.status = "ok" THEN out.work ELSE table,
         updated |-> IF out.status = "ok" THEN out.updated ELSE 0,
         deleted |-> IF out.status = "ok" THEN out.deleted ELSE 0]

NoRun ==
    [ran |-> FALSE, changed_pids |-> None, status |-> "none", at |-> 0,
     updated |-> 0, deleted |-> 0, http |-> 0, req |-> None]

Ran(changed_pids, out) ==
    [ran |-> TRUE, changed_pids |-> changed_pids, status |-> out.status,
     at |-> out.at, updated |-> out.updated, deleted |-> out.deleted,
     http |-> 0, req |-> None]

\* The step served GET /log with the parameters pid and result (stripped, the
\* result in lower case) and answered with status `code`: _json(self, code, ...).
Served(code, pid, result, last) ==
    [last EXCEPT !.http = code, !.req = [pid |-> pid, result |-> result]]

\* ---------------------------------------------------------- sync_attempts
MsPerSec == MaxFrac + 1

\* datetime.fromtimestamp(ms / 1000, tz=utc).isoformat().replace("+00:00", "Z")
_iso_from_ms(ms) == Stamp(ms \div MsPerSec, ms % MsPerSec)

\* SELECT MAX(strftime('%s', attempted_at))*1000: strftime yields NULL for a
\* text it cannot read, and MAX passes NULLs over.
_get_last_attempt_ms(rows) ==
    LET secs == {a.attempted_at.sec : a \in {b \in rows : b.attempted_at.ok}}
    IN  IF secs = {} THEN None
        ELSE Some((CHOOSE m \in secs : \A n \in secs : n <= m) * MsPerSec)

\* Mutant: _upsert_attempt uses INSERT OR REPLACE.
_fetch_and_upsert_replacing(rows, feed, since_ms) ==
    LET since == IF since_ms = None THEN 0 ELSE since_ms.val
        kept  == {obj \in feed : ~(obj.date <= since)}
    IN  {r \in rows :
            ~\E obj \in kept : /\ obj.puzzle_id = r.puzzle_id
                                /\ _iso_from_ms(obj.date) = r.attempted_at}
        \cup {Row(obj.puzzle_id, _iso_from_ms(obj.date),
                  IF obj.win THEN "win" ELSE "loss") : obj \in kept}

\* The rows _fetch_and_upsert leaves in table attempts after a whole feed.
_fetch_and_upsert(rows, feed, since_ms) ==
    LET since == IF since_ms = None THEN 0 ELSE since_ms.val
        kept  == {obj \in feed : ~(obj.date <= since)}
        fresh == {obj \in kept :
                     ~HasKey(rows, obj.puzzle_id, _iso_from_ms(obj.date))}
    IN  rows \cup {Row(obj.puzzle_id, _iso_from_ms(obj.date),
                       IF obj.win THEN "win" ELSE "loss") : obj \in fresh}

\* sync_attempts.run() is not running: no try made, last_ms not read.
SyncIdle == [pc |-> "idle", tries |-> 0, last_ms |-> None]

\* Mutant: the manual loop retries while tries <= 2.
OnRequestException_one_retry_fewer(tries) ==
    IF tries <= 2 THEN "loop" ELSE "gave_up"

\* except requests.exceptions.RequestException: sleep and `continue` while
\* tries <= 3, else report and `break`.
OnRequestException(tries) ==
    IF tries <= MaxRetries THEN "loop" ELSE "gave_up"

\* ------------------------------------------------------------------ state
Init ==
    /\ \E env \in Environments :
           /\ environ = env
           /\ TRACK_WINS = _env_bool(env.SRS_TRACK_WINS, FALSE)
           /\ LOSS_CADENCE = _parse_cadence(env.SRS_LOSS_CADENCE, DefaultLossCadence)
           /\ WIN_CADENCE = _parse_cadence(env.SRS_WIN_CADENCE, DefaultWinCadence)
           /\ RESET_ON_FAIL = _env_bool(env.SRS_RESET_ON_FAIL, TRUE)
           /\ SEED_MODE = _env_str(env.SRS_SEED_MODE, "tomorrow")
           /\ STAGGER_BUCKETS = _env_int(env.SRS_STAGGER_BUCKETS, DefaultStaggerBuckets)
    /\ clock = 1
    /\ attempts = {}
    /\ srs = [p \in Puzzles |-> None]
    /\ updater = "idle"
    /\ snapshot = None
    /\ srs_rows = {}
    /\ syncer = SyncIdle
    /\ lastRun = NoRun

\* Time passes.
Tick ==
    /\ clock < MaxClock
    /\ clock' = clock + 1
    /\ lastRun' = NoRun
    /\ UNCHANGED <<aux, config, attempts, srs, updater>>

\* A row whose attempted_at is no ISO timestamp reaches table attempts from
\* outside the program (the database file is shared).
ForeignRow(pid) ==
    /\ Cardinality(attempts) < MaxAttempts
    /\ ~HasKey(attempts, pid, Malformed)
    /\ attempts' = attempts \cup {Row(pid, Malformed, "loss")}
    /\ lastRun' = NoRun
    /\ UNCHANGED <<aux, config, clock, srs, updater>>

\* The entries the remote activity feed can hold now: a puzzle, the
\* millisecond it was played at (not after now) and whether it was solved.
FeedEntries ==
    [puzzle_id : Puzzles, date : MsPerSec..(clock * MsPerSec + MaxFrac),
     win : BOOLEAN]

\* The feeds of at most n entries.
RECURSIVE FeedsUpTo(_)
FeedsUpTo(n) ==
    IF n = 0 THEN {{}}
    ELSE LET smaller == FeedsUpTo(n - 1)
         IN  smaller \cup {f \cup {obj} : f \in smaller, obj \in FeedEntries}

\* sync_attempts.run(): the rows of table attempts after a fetch that streams
\* `feed` (a fetch that breaks off has streamed a smaller feed).
SyncAttempts(rows, feed) ==
    _fetch_and_upsert(rows, feed, _get_last_attempt_ms(rows))

\* The bound on the streaks of the model (a run with no new attempt can add
\* to a streak, so they are not bounded by the attempts).
StreaksBounded(table) ==
    \A p \in Puzzles : table[p] # None => table[p].success_streak <= MaxStreak

\* update.py main(), step 2: sync_attempts.run(USER, TOKEN, eng).  Its inserts
\* are committed row by row, and the server may act before step 3 runs.
UpdateSync(feed) ==
    /\ updater = "idle"
    /\ \A x, y \in feed : x.puzzle_id = y.puzzle_id /\ x.date = y.date => x = y
    /\ LET rows == SyncAttempts(attempts, feed)
       IN  /\ Cardinality(rows) <= MaxAttempts
           /\ attempts' = rows
    /\ updater' = "synced"
    /\ lastRun' = NoRun
    /\ UNCHANGED <<aux, config, clock, srs>>

\* compute_srs.run(eng) as step 3 of update.py main(), which ends with it or
\* with the exception it raises; or compute_srs.py run as a script.
ComputeSrs(fail_at) ==
    /\ LET out == run(attempts, srs, None, fail_at)
       IN  /\ StreaksBounded(out.srs)
           /\ srs' = out.srs
           /\ lastRun' = Ran(None, out)
    /\ updater' = "idle"
    /\ UNCHANGED <<aux, config, clock, attempts>>

\* serve.py GET /log?puzzle_id=pid&result=result with valid parameters:
\* _insert_attempt at the current second, commit, then
\* _recompute_srs_single(pid) = compute_srs.run(changed_pids=[pid]).
\* A second row of the same puzzle and second breaks the UNIQUE key: the
\* INSERT raises and the handler answers 500 with nothing written.
\* Mutant: the INSERT and the recompute share one transaction, so a recompute
\* that raises takes the new attempt back.
LogAttempt_one_transaction(pid, result, fail_at) ==
    /\ Cardinality(attempts) < MaxAttempts
    /\ LET iso == Stamp(clock, 0)
       IN  IF HasKey(attempts, pid, iso)
           THEN /\ lastRun' = Served(500, pid, result, NoRun)
                /\ UNCHANGED <<attempts, srs>>
           ELSE LET rows == attempts \cup {Row(pid, iso, result)}
                    out  == run(rows, srs, Some(<<pid>>), fail_at)
                IN  /\ StreaksBounded(out.srs)
                    /\ attempts' = IF out.status = "ok" THEN rows ELSE attempts
                    /\ srs' = out.srs
                    /\ lastRun' = Served(IF out.status = "ok" THEN 200 ELSE 500,
                                         pid, result, Ran(Some(<<pid>>), out))
    /\ UNCHANGED <<aux, config, clock, updater>>

LogAttempt(pid, result, fail_at) ==
    /\ Cardinality(attempts) < MaxAttempts
    /\ LET iso == Stamp(clock, 0)
       IN  IF HasKey(attempts, pid, iso)
           THEN /\ lastRun' = Served(500, pid, result, NoRun)
                /\ UNCHANGED <<attempts, srs>>
           ELSE LET rows == attempts \cup {Row(pid, iso, result)}
                    out  == run(rows, srs, Some(<<pid>>), fail_at)
                IN  /\ StreaksBounded(out.srs)
                    /\ attempts' = rows
                    /\ srs' = out.srs
                    /\ lastRun' = Served(IF out.status = "ok" THEN 200 ELSE 500,
                                         pid, result, Ran(Some(<<pid>>), out))
    /\ UNCHANGED <<aux, config, clock, updater>>

\* The texts a request may carry as puzzle_id: none or an empty one (id 0) or
\* the id of a puzzle, bare or with white space around it.
PidTexts == [id : 0..NumPuzzles, padded : BOOLEAN]

\* The texts a request may carry as result.
ResultTexts == {"win", "loss", "WIN", " Loss ", "draw", " ", ""}

\* str.strip() of a puzzle_id text: the id without its padding ("" is id 0).
Strip(text) == text.id

\* str.strip().lower() of a result text
StripLower(text) ==
    CASE text = "WIN" -> "win"
      [] text = " Loss " -> "loss"
      [] text = " " -> ""
      [] OTHER -> text

\* serve.py GET /log, the whole handler: the parameters are stripped (the
\* result lower-cased) and checked, and a request without puzzle id or with a
\* result other than win and loss is answered 400 before anything is done.
LogRequest(puzzle_id, result, fail_at) ==
    LET pid == Strip(puzzle_id)
        res == StripLower(result)
    IN  IF pid = 0 \/ res \notin {"win", "loss"}
        THEN /\ lastRun' = Served(400, pid, res, NoRun)
             /\ UNCHANGED <<aux, config, clock, attempts, srs, updater>>
        ELSE LogAttempt(pid, res, fail_at)

Next ==
    \/ Tick
    \/ \E pid \in Puzzles : ForeignRow(pid)
    \/ \E feed \in FeedsUpTo(MaxFeed) : UpdateSync(feed)
    \/ \E fail_at \in 0..NumPuzzles : ComputeSrs(fail_at)
    \/ \E pid \in Puzzles, result \in Results :
           \E fail_at \in {0, pid} : LogAttempt(pid, result, fail_at)

Spec == Init /\ [][Next]_vars

\* The server alone: every attempt comes through /log and is followed by its
\* recompute, which the store does not fail.
NextServe ==
    \/ Tick
    \/ \E pid \in Puzzles, result \in Results : LogAttempt(pid, result, 0)

SpecServe == Init /\ [][NextServe]_vars

\* The server answering every kind of /log request, the store failing some
\* of the recomputes.
NextLog ==
    \/ Tick
    \/ \E puzzle_id \in PidTexts, result \in ResultTexts :
           \E fail_at \in {0, Strip(puzzle_id)} :
               LogRequest(puzzle_id, result, fail_at)

SpecLog == Init /\ [][NextLog]_vars

\* run(engine) next to a running server.  The SELECT of line 132 opens no
\* transaction (the sqlite3 driver begins one before the first INSERT, UPDATE
\* or DELETE only), so the server can commit between run()'s fetch of the
\* latest attempts and the loop over them.
FullBegin ==
    /\ snapshot = None
    /\ snapshot' = Some(attempts)
    /\ lastRun' = NoRun
    /\ UNCHANGED <<environ, srs_rows, syncer, config, clock, attempts, srs, updater>>

\* The loop of lines 133-166 over the rows fetched before, each iteration
\* reading the puzzle's entry as it is now, and the commit.
FullEnd(fail_at) ==
    /\ snapshot # None
    /\ LET out == run(snapshot.val, srs, None, fail_at)
       IN  /\ StreaksBounded(out.srs)
           /\ srs' = out.srs
           /\ lastRun' = Ran(None, out)
    /\ snapshot' = None
    /\ UNCHANGED <<environ, srs_rows, syncer, config, clock, attempts, updater>>

NextConcurrent ==
    \/ Tick
    \/ \E pid \in Puzzles, result \in Results : LogAttempt(pid, result, 0)
    \/ FullBegin
    \/ \E fail_at \in 0..NumPuzzles : FullEnd(fail_at)

SpecConcurrent == Init /\ [][NextConcurrent]_vars

\* sync_attempts.run(), lines 137-147: the headers are built and last_ms is
\* read once, before the loop.
SyncStart ==
    /\ syncer.pc # "loop"
    /\ syncer' = [pc |-> "loop", tries |-> 0,
                  last_ms |-> _get_last_attempt_ms(attempts)]
    /\ lastRun' = NoRun
    /\ UNCHANGED <<environ, snapshot, srs_rows, config, clock, attempts, srs, updater>>

\* One pass of the `while True` loop, lines 152-176: tries += 1 and a fetch
\* that streams `feed`, each entry committed as it is read, and then either
\* ends (break) or raises a requests.exceptions.RequestException.
SyncFetch(feed, raised) ==
    /\ syncer.pc = "loop"
    /\ \A x, y \in feed : x.puzzle_id = y.puzzle_id /\ x.date = y.date => x = y
    /\ LET rows == _fetch_and_upsert(attempts, feed, syncer.last_ms)
       IN  /\ Cardinality(rows) <= MaxAttempts
           /\ attempts' = rows
    /\ syncer' = [syncer EXCEPT
                      !.tries = @ + 1,
                      !.pc = IF raised THEN OnRequestException(syncer.tries + 1)
                             ELSE "done"]
    /\ lastRun' = NoRun
    /\ UNCHANGED <<environ, snapshot, srs_rows, config, clock, srs, updater>>

SyncFetchAny ==
    \E feed \in FeedsUpTo(MaxFeed), raised \in BOOLEAN : SyncFetch(feed, raised)

\* sync_attempts.run() on its own, under the default environment.
InitSync ==
    /\ Init
    /\ environ = Env(Unset, Unset, Unset, <<NonDigit>>, <<NonDigit>>, NoInt)

NextSync ==
    \/ Tick
    \/ SyncStart
    \/ SyncFetchAny

SpecSync == InitSync /\ [][NextSync]_vars

\* The loop is straight-line code and every fetch returns or raises (the
\* request has a timeout), so a pass that can be made is made.
SpecSyncLive == SpecSync /\ WF_vars(SyncFetchAny)

\* Table srs at the level of its rows and of the two statements run() executes
\* on it.
SrsRow(puzzle_id, last_result, streak, interval_days, due_date, last_reviewed) ==
    [puzzle_id |-> puzzle_id, success_streak |-> streak,
     interval_days |-> interval_days, last_result |-> last_result,
     last_reviewed |-> last_reviewed, due_date |-> due_date]

\* Mutant: a plain INSERT, with no ON CONFLICT clause and no key to stop it.
ExecUpsert_plain_insert(rows, puzzle_id, last_result, streak, interval_days, due_date, last_reviewed) ==
    rows \cup {SrsRow(puzzle_id, last_result, streak, interval_days, due_date,
                      last_reviewed)}

\* SQL_UPSERT_SRS: INSERT, and where a row with the key (user_id, puzzle_id)
\* is in the way, set its five fields to the excluded (new) values instead.
ExecUpsert(rows, puzzle_id, last_result, streak, interval_days, due_date, last_reviewed) ==
    LET new == SrsRow(puzzle_id, last_result, streak, interval_days, due_date,
                      last_reviewed)
    IN  IF \E r \in rows : r.puzzle_id = puzzle_id
        THEN {IF r.puzzle_id = puzzle_id THEN new ELSE r : r \in rows}
        ELSE rows \cup {new}

\* SQL_DELETE_SRS
ExecDelete(rows, pid) == {r \in rows : r.puzzle_id # pid}

\* SQL_GET_EXISTING ... .mappings().first()
ExecGetExisting(rows, pid) ==
    IF \E r \in rows : r.puzzle_id = pid
    THEN CHOOSE r \in rows : r.puzzle_id = pid
    ELSE None

\* The local dates the attempts of the model fall on.
Days == {_local_date_of_iso(Stamp(t, 0)) : t \in 1..MaxClock}

\* One iteration of run()'s loop, lines 134-166, for a puzzle whose latest
\* attempt has the given result and local date.
RowsStep(pid, last_result, last_attempt_date) ==
    /\ LET existing == ExecGetExisting(srs_rows, pid)
           d == Decide(existing, last_result, last_attempt_date, pid)
       IN  /\ d.op = "UPSERT" => d.res.streak <= MaxStreak
           /\ srs_rows' =
                  IF d.op = "DELETE" THEN ExecDelete(srs_rows, pid)
                  ELSE IF d.op = "UPSERT"
                       THEN ExecUpsert(srs_rows, pid, last_result, d.res.streak,
                                       d.res.interval,
                                       DateAdd(d.res.base_date, d.res.interval),
                                       d.res.base_date)
                       ELSE srs_rows
    /\ UNCHANGED <<environ, snapshot, syncer, config, clock, attempts, srs, updater,
                   lastRun>>

NextTable ==
    \E pid \in Puzzles, last_result \in Results, day \in Days :
        RowsStep(pid, last_result, day)

SpecTable == Init /\ [][NextTable]_vars

\* The seeding of first losses under seed_mode = stagger, for every bucket
\* count from 1 to MaxBuckets and every id of the pool.
SeedEnvironments ==
    {Env(Unset, Unset, "stagger", <<NonDigit>>, <<NonDigit>>, IntText(b)) :
        b \in 1..MaxBuckets}

InitSeed ==
    /\ \E env \in SeedEnvironments :
           /\ environ = env
           /\ TRACK_WINS = _env_bool(env.SRS_TRACK_WINS, FALSE)
           /\ LOSS_CADENCE = _parse_cadence(env.SRS_LOSS_CADENCE, DefaultLossCadence)
           /\ WIN_CADENCE = _parse_cadence(env.SRS_WIN_CADENCE, DefaultWinCadence)
           /\ RESET_ON_FAIL = _env_bool(env.SRS_RESET_ON_FAIL, TRUE)
           /\ SEED_MODE = _env_str(env.SRS_SEED_MODE, "tomorrow")
           /\ STAGGER_BUCKETS = _env_int(env.SRS_STAGGER_BUCKETS, DefaultStaggerBuckets)
    /\ clock = 1
    /\ attempts = {}
    /\ srs = [p \in Puzzles |-> None]
    /\ updater = "idle"
    /\ snapshot = None
    /\ srs_rows = {}
    /\ syncer = SyncIdle
    /\ lastRun = NoRun

\* One iteration of run()'s loop for a puzzle of the pool whose latest attempt
\* is a loss.
NextSeed ==
    \E pid \in DOMAIN PuzzlePool, day \in Days : RowsStep(pid, "loss", day)

SpecSeed == InitSeed /\ [][NextSeed]_vars

\* ====================================================================
\* Properties
\* ====================================================================
HasAttempts(p) == AttemptsOf(attempts, p) # {}

Latest(p) == SQL_LAST_ATTEMPT(attempts, p)

\* Puzzle p was inside the scope of the run of the last step.
InScope(p) ==
    /\ lastRun.ran
    /\ HasAttempts(p)
    /\ (lastRun.changed_pids = None \/ InList(p, lastRun.changed_pids.val))

RanOk == lastRun.ran /\ lastRun.status = "ok"

FullOk == RanOk /\ lastRun.changed_pids = None

\* The latest attempt is one the configuration schedules.
Trackable(result) == result = "loss" \/ (result = "win" /\ TRACK_WINS)

Entry(streak, interval, reviewed, due, result) ==
    [success_streak |-> streak, interval_days |-> interval,
     last_result |-> result, last_reviewed |-> reviewed, due_date |-> due]

\* C1: after a full recompute that completed, a puzzle with attempts has a
\* schedule entry exactly when its latest attempt is trackable (a loss, or a
\* win while wins are tracked); no entry survives an untracked latest win.
C1_EntryIffTrackable ==
    FullOk =>
        \A p \in Puzzles :
            HasAttempts(p) =>
                ((srs[p] # None) <=> Trackable(Latest(p).last_result))

\* C1 witness: a full recompute removed the stale entry of a puzzle whose
\* latest attempt is a win that is not tracked.
C1_Witness ==
    /\ FullOk
    /\ ~TRACK_WINS
    /\ lastRun.deleted > 0
    /\ \E p \in Puzzles :
           /\ HasAttempts(p)
           /\ Latest(p).last_result = "win"
           /\ srs[p] = None

\* C2: recomputation is idempotent: a second run over the same scope with no
\* new attempt leaves every schedule entry as the first run left it.
C2_RerunChangesNothing ==
    RanOk => run(attempts, srs, lastRun.changed_pids, 0).srs = srs

\* C3: for every puzzle P the entry of P after run(changed_pids=[P]) is the
\* entry of P after a full run from the same tables.
C3_IncrementalEqualsFull ==
    \A p \in Puzzles :
        run(attempts, srs, Some(<<p>>), 0).srs[p] = run(attempts, srs, None, 0).srs[p]

\* C4: every schedule entry has interval_days >= 1.
C4_IntervalAtLeastOne ==
    \A p \in Puzzles : srs[p] # None => srs[p].interval_days >= 1

\* C5: every entry's due_date is its last_reviewed advanced by interval_days
\* calendar days.
C5_DueIsReviewedPlusInterval ==
    \A p \in Puzzles :
        srs[p] # None => srs[p].due_date = srs[p].last_reviewed + srs[p].interval_days

\* C5 witness: a run rewrote an entry that was reviewed on an earlier day, with
\* an interval of several days.
C5_Witness ==
    /\ RanOk
    /\ lastRun.updated > 0
    /\ \E p \in Puzzles :
           /\ InScope(p)
           /\ srs[p] # None
           /\ srs[p].interval_days > 1
           /\ srs[p].success_streak > 0
           /\ srs[p].last_reviewed = _local_date_of_iso(Latest(p).last_attempt)
           /\ srs[p].due_date = srs[p].last_reviewed + srs[p].interval_days
           /\ Cardinality(AttemptsOf(attempts, p)) > 1

\* The run of this step finished and had puzzle p, which has attempts, in
\* its scope (primed: the state the step leads to).
ProcessedOkNow(p) ==
    /\ lastRun'.ran
    /\ lastRun'.status = "ok"
    /\ AttemptsOf(attempts', p) # {}
    /\ (lastRun'.changed_pids = None \/ InList(p, lastRun'.changed_pids.val))

LatestNow(p) == SQL_LAST_ATTEMPT(attempts', p)

\* C6: with wins untracked, a run that meets a latest win deletes the entry if
\* there is one and does nothing otherwise; it never writes a row for it.
C6_UntrackedWinStep ==
    \A p \in Puzzles :
        (~TRACK_WINS /\ ProcessedOkNow(p) /\ LatestNow(p).last_result = "win") =>
            /\ srs'[p] = None
            /\ lastRun'.changed_pids # None =>
                   /\ lastRun'.updated = 0
                   /\ lastRun'.deleted = IF srs[p] # None THEN 1 ELSE 0

\* Entries of every streak and interval the bounds allow, reviewed on day 1.
SampleEntries ==
    {Entry(streak, interval, 1, 1 + interval, result) :
        streak \in 0..(MaxStreak + 1), interval \in 1..3, result \in Results}

C6_AnyPriorEntry ==
    ~TRACK_WINS =>
        \A p \in Puzzles, e \in SampleEntries, day \in 0..MaxClock :
            /\ Decide(e, "win", day, p).op = "DELETE"
            /\ Decide(None, "win", day, p).op = "NOOP"

C6_UntrackedWin == [][C6_UntrackedWinStep]_vars /\ []C6_AnyPriorEntry

\* C6 witness: the /log of a win, wins untracked, deleted the puzzle's entry.
C6_Witness ==
    /\ ~TRACK_WINS
    /\ RanOk
    /\ lastRun.deleted = 1
    /\ lastRun.updated = 0
    /\ \E p \in Puzzles :
           /\ lastRun.changed_pids = Some(<<p>>)
           /\ Latest(p).last_result = "win"
           /\ srs[p] = None

\* C7: with seed_mode = tomorrow, a run that meets a latest loss of a puzzle
\* without entry creates the entry with interval_days = 1 and due_date =
\* last_reviewed + 1, whatever loss_cadence holds.
C7_FirstLossStep ==
    \A p \in Puzzles :
        (/\ SEED_MODE = "tomorrow"
         /\ ProcessedOkNow(p)
         /\ srs[p] = None
         /\ LatestNow(p).last_result = "loss") =>
            /\ srs'[p] # None
            /\ srs'[p].interval_days = 1
            /\ srs'[p].due_date = srs'[p].last_reviewed + 1

C7_FirstLossSeedsTomorrow == [][C7_FirstLossStep]_vars

\* C7 witness: a run seeded an entry with interval 1 although loss_cadence
\* starts with another interval.
C7_Witness ==
    /\ SEED_MODE = "tomorrow"
    /\ LOSS_CADENCE[1] # 1
    /\ RanOk
    /\ lastRun.updated = 1
    /\ \E p \in Puzzles :
           /\ InScope(p)
           /\ Cardinality(AttemptsOf(attempts, p)) = 1
           /\ srs[p] = Entry(0, 1, _local_date_of_iso(Latest(p).last_attempt),
                             _local_date_of_iso(Latest(p).last_attempt) + 1, "loss")

\* The local calendar day of the wall clock.
Today == (clock + LocalOffset) \div SecsPerDay

\* This step is a /log of `result` for p whose recompute finished: the
\* attempt is dated now and is p's latest.
LoggedNow(p, result) ==
    /\ attempts' = attempts \cup {Row(p, Stamp(clock, 0), result)}
    /\ attempts' # attempts
    /\ lastRun'.ran
    /\ lastRun'.status = "ok"
    /\ lastRun'.changed_pids = Some(<<p>>)
    /\ LatestNow(p).last_attempt = Stamp(clock, 0)

\* Step 1 of the scenario: the first attempt of p, a loss, seeds the entry.
C8_Step1(p) ==
    (/\ AttemptsOf(attempts, p) = {}
     /\ srs[p] = None
     /\ LoggedNow(p, "loss")) =>
        srs'[p] = Entry(0, 1, Today, Today + 1, "loss")

\* Step 2: the entry of step 1 is there and a win follows: the entry goes.
C8_Step2(p) ==
    (/\ \E l \in AttemptsOf(attempts, p) :
            /\ AttemptsOf(attempts, p) = {l}
            /\ l.result = "loss"
            /\ l.attempted_at.ok
            /\ srs[p] = Entry(0, 1, _local_date_of_iso(l.attempted_at),
                              _local_date_of_iso(l.attempted_at) + 1, "loss")
     /\ LoggedNow(p, "win")) =>
        srs'[p] = None

\* Step 3: after the loss and the win, with the entry gone, a loss follows:
\* the entry is back with streak 0 and the given interval, reviewed today.
C8_Step3(p, interval) ==
    (/\ \E l, w \in AttemptsOf(attempts, p) :
            /\ AttemptsOf(attempts, p) = {l, w}
            /\ l.result = "loss"
            /\ w.result = "win"
            /\ IsoLess(l.attempted_at, w.attempted_at)
     /\ srs[p] = None
     /\ LoggedNow(p, "loss")) =>
        srs'[p] = Entry(0, interval, Today, Today + interval, "loss")

C8_Scenario(p, interval) ==
    (~TRACK_WINS /\ SEED_MODE = "tomorrow") =>
        (C8_Step1(p) /\ C8_Step2(p) /\ C8_Step3(p, interval))

\* C8 as stated: with wins untracked and seed_mode = tomorrow, loss, win, loss,
\* each followed by its recompute: entry(0, 1, D1, D1+1); entry deleted; entry
\* (0, loss_cadence[0], D3, D3 + loss_cadence[0]).
C8_RecreatedAtCadence ==
    [][\A p \in Puzzles : C8_Scenario(p, LOSS_CADENCE[1])]_vars

\* C8 amended: the entry recreated by the third attempt is seeded like a first
\* one, with interval_days = 1 and due_date = D3 + 1, whatever loss_cadence is.
C8_RecreatedAtSeed ==
    [][\A p \in Puzzles : C8_Scenario(p, 1)]_vars

\* C8 witness: the third /log of the scenario has run and loss_cadence[0] is
\* not 1.
C8_Witness ==
    /\ ~TRACK_WINS
    /\ SEED_MODE = "tomorrow"
    /\ LOSS_CADENCE[1] # 1
    /\ RanOk
    /\ \E p \in Puzzles :
           /\ lastRun.changed_pids = Some(<<p>>)
           /\ \E l, w, n \in AttemptsOf(attempts, p) :
                  /\ AttemptsOf(attempts, p) = {l, w, n}
                  /\ l.result = "loss" /\ w.result = "win" /\ n.result = "loss"
                  /\ IsoLess(l.attempted_at, w.attempted_at)
                  /\ IsoLess(w.attempted_at, n.attempted_at)
                  /\ l.attempted_at.frac = 0 /\ w.attempted_at.frac = 0
                  /\ n.attempted_at = Stamp(clock, 0)
           /\ srs[p] = Entry(0, 1, Today, Today + 1, "loss")

\* The entry of p, or its absence, is the one its latest attempt asks for.
Reflects(p) ==
    LET r == Latest(p)
    IN  IF Trackable(r.last_result)
        THEN /\ srs[p] # None
             /\ srs[p].last_result = r.last_result
             /\ srs[p].last_reviewed = _local_date_of_iso(r.last_attempt)
        ELSE srs[p] = None

\* C9: a latest attempt whose timestamp cannot be read fails that puzzle
\* alone: the run finishes and every other puzzle of its scope is brought up
\* to date.
C9_BadTimestampSkipsOnePuzzle ==
    (lastRun.ran /\ \E q \in Puzzles : InScope(q) /\ ~Latest(q).last_attempt.ok) =>
        /\ lastRun.status = "ok"
        /\ \A p \in Puzzles :
               (InScope(p) /\ Latest(p).last_attempt.ok) => Reflects(p)

\* C10: a store write that fails at one puzzle leaves in place what the run
\* already wrote for the puzzles before it.
C10_EarlierWritesSurvive ==
    (lastRun.ran /\ lastRun.status = "OperationalError") =>
        \A p \in Puzzles : (InScope(p) /\ p < lastRun.at) => Reflects(p)

\* The entry of p after this step is the one p's latest attempt asks for.
ReflectsNext(p) ==
    LET r == LatestNow(p)
    IN  IF Trackable(r.last_result)
        THEN /\ srs'[p] # None
             /\ srs'[p].last_result = r.last_result
             /\ srs'[p].last_reviewed = _local_date_of_iso(r.last_attempt)
        ELSE srs'[p] = None

\* C11: a full recompute that ran while the server logged an attempt of P
\* and recomputed P leaves, once it has finished, the entry of P that P's
\* newest attempt asks for.
C11_NoLostUpdate ==
    [][(/\ snapshot # None
        /\ snapshot' = None
        /\ lastRun'.status = "ok")
       => \A p \in Puzzles :
              AttemptsOf(snapshot.val, p) # AttemptsOf(attempts, p) => ReflectsNext(p)]_vars

\* The number of wins at the end of a puzzle's attempt history.
RECURSIVE TrailingWins(_)
TrailingWins(grp) ==
    IF grp = {} THEN 0
    ELSE LET last == CHOOSE a \in grp :
                         \A b \in grp : b = a \/ IsoLess(b.attempted_at, a.attempted_at)
         IN  IF last.result = "win" THEN 1 + TrailingWins(grp \ {last}) ELSE 0

\* C12: every success_streak is non-negative, and with track_wins and
\* reset_on_fail both true the streak a finished run leaves for a puzzle of
\* its scope is the number of consecutive wins at the end of its history.
C12_StreakCountsTrailingWins ==
    /\ \A p \in Puzzles : srs[p] # None => srs[p].success_streak >= 0
    /\ (TRACK_WINS /\ RESET_ON_FAIL /\ RanOk) =>
           \A p \in Puzzles :
               (InScope(p) /\ srs[p] # None) =>
                   srs[p].success_streak = TrailingWins(AttemptsOf(attempts, p))

\* C13: table srs never holds two rows of one puzzle, and an UPSERT for a
\* puzzle leaves exactly one row of it, holding the five new fields.
C13_OneEntryPerPuzzle ==
    /\ \A r1, r2 \in srs_rows : r1.puzzle_id = r2.puzzle_id => r1 = r2
    /\ \A pid \in Puzzles, result \in Results, streak \in 0..MaxStreak,
          interval \in 1..2, day \in Days :
           LET after == ExecUpsert(srs_rows, pid, result, streak, interval,
                                   day + interval, day)
           IN  /\ {r \in after : r.puzzle_id = pid} =
                      {SrsRow(pid, result, streak, interval, day + interval, day)}
               /\ {r \in after : r.puzzle_id # pid} =
                      {r \in srs_rows : r.puzzle_id # pid}

\* C13 witness: the row of a puzzle has been upserted onto more than once (its
\* streak has grown past the seed's) while the other puzzle has its row too.
C13_Witness ==
    /\ Cardinality(srs_rows) = NumPuzzles
    /\ \E r \in srs_rows : r.success_streak > 1 /\ r.last_result = "win"

HasNonDigit(parts) == \E k \in DOMAIN parts : parts[k] = NonDigit

\* C14: a cadence setting with a non-numeric entry gives the default cadence,
\* and a seed mode that is neither tomorrow nor stagger seeds with interval 1.
C14_ParseFailuresGiveDefaults ==
    /\ HasNonDigit(environ.SRS_LOSS_CADENCE) => LOSS_CADENCE = DefaultLossCadence
    /\ HasNonDigit(environ.SRS_WIN_CADENCE) => WIN_CADENCE = DefaultWinCadence
    /\ SEED_MODE \notin {"tomorrow", "stagger"} =>
           \A p \in Puzzles : _seed_offset_days(p) = 1

\* The puzzles inside the scope of the run of this step.
ScopeNow ==
    {p \in Puzzles :
        /\ AttemptsOf(attempts', p) # {}
        /\ (lastRun'.changed_pids = None \/ InList(p, lastRun'.changed_pids.val))}

\* C15: a run that finishes reports as `updated` the number of puzzles it
\* upserted and as `deleted` the number of entries it removed; a puzzle with
\* no action counts in neither, so the sum is at most the puzzles with attempts.
C15_CountsStep ==
    (lastRun'.ran /\ lastRun'.status = "ok") =>
        /\ lastRun'.updated = Cardinality({p \in ScopeNow : srs'[p] # None})
        /\ lastRun'.deleted =
               Cardinality({p \in Puzzles : srs[p] # None /\ srs'[p] = None})
        /\ \A p \in Puzzles \ ScopeNow : srs'[p] = srs[p]
        /\ lastRun'.updated + lastRun'.deleted <=
               Cardinality({p \in Puzzles : AttemptsOf(attempts', p) # {}})

C15_CountsAreExact == [][C15_CountsStep]_vars

\* C15 witness: one full run upserted one puzzle and deleted the entry of
\* another.
C15_Witness ==
    /\ FullOk
    /\ lastRun.updated = 1
    /\ lastRun.deleted = 1
    /\ \E p, q \in Puzzles :
           /\ srs[p] # None /\ Latest(p).last_result = "loss"
           /\ srs[q] = None /\ HasAttempts(q) /\ Latest(q).last_result = "win"

\* What Python computes for the ids of PuzzlePool:
\* base = 0; for ch in id: base = (base * 131 + ord(ch)) & 0x7fffffff
StaggerHash == <<1359832760, 1359833949, 1359840142, 1360985755, 1845628842>>

\* (base % max(stagger_buckets, 1)) or 1
StaggerInterval(p) ==
    LET r == StaggerHash[p] % (IF STAGGER_BUCKETS >= 1 THEN STAGGER_BUCKETS ELSE 1)
    IN  IF r = 0 THEN 1 ELSE r

\* This step's run finished and seeded the entry of p from a latest loss.
SeededLossNow(p) ==
    /\ ProcessedOkNow(p)
    /\ srs[p] = None
    /\ LatestNow(p).last_result = "loss"

C16_SeedStep ==
    \A p \in Puzzles :
        (SEED_MODE = "stagger" /\ SeededLossNow(p)) =>
            /\ srs'[p] # None
            /\ srs'[p].interval_days = StaggerInterval(p)

C16_HashOfId ==
    \A p \in DOMAIN PuzzlePool : HashFrom(0, PuzzlePool[p]) = StaggerHash[p]

\* C16: with seed_mode = stagger the seed interval of a puzzle is the same in
\* every run and for every content of the tables: it is the value fixed by
\* the characters of the puzzle id and by stagger_buckets alone.
C16_StaggerDeterministic == [][C16_SeedStep]_vars /\ []C16_HashOfId

\* C16 witness: a run seeded an entry by stagger with an interval other
\* than 1 while the tables held another puzzle's rows.
C16_Witness ==
    /\ SEED_MODE = "stagger"
    /\ RanOk
    /\ \E p, q \in Puzzles :
           /\ p # q
           /\ HasAttempts(q)
           /\ InScope(p)
           /\ Cardinality(AttemptsOf(attempts, p)) = 1
           /\ Latest(p).last_result = "loss"
           /\ srs[p] # None
           /\ srs[p].interval_days = StaggerInterval(p)
           /\ srs[p].interval_days > 1

\* C17: table attempts is append-only: no step removes or changes a row, and a
\* step that is a full compute_srs.run() leaves the table as it was.
C17_Step ==
    /\ \A a \in attempts : a \in attempts'
    /\ (lastRun'.ran /\ lastRun'.changed_pids = None) => attempts' = attempts

C17_AttemptsAppendOnly == [][C17_Step]_vars

\* C17 witness: a puzzle holds a synced attempt (sub-second timestamp) and a
\* logged one, and a recompute over them has finished.
C17_Witness ==
    /\ FullOk
    /\ \E a, b \in attempts :
           /\ a.puzzle_id = b.puzzle_id
           /\ a.attempted_at.ok /\ a.attempted_at.frac > 0
           /\ b.attempted_at.ok /\ b.attempted_at.frac = 0
           /\ a.attempted_at.sec = b.attempted_at.sec
           /\ a.result # b.result

\* The interval the seed mode gives puzzle p.
SeedInterval(p) == IF SEED_MODE = "stagger" THEN StaggerInterval(p) ELSE 1

\* The local date of the latest attempt of p after this step.
LatestDayNow(p) == _local_date_of_iso(LatestNow(p).last_attempt)

\* C18: a run that meets a trackable latest attempt of a puzzle without entry
\* creates the entry with streak 1 and interval win_cadence[0] for a win,
\* streak 0 and the seed interval for a loss, last_reviewed = the attempt's
\* local date and due_date = last_reviewed + interval_days.
C18_SeedStep ==
    \A p \in Puzzles :
        (/\ ProcessedOkNow(p)
         /\ srs[p] = None
         /\ Trackable(LatestNow(p).last_result)) =>
            LET is_win   == LatestNow(p).last_result = "win"
                interval == IF is_win THEN WIN_CADENCE[1] ELSE SeedInterval(p)
            IN  srs'[p] = Entry(IF is_win THEN 1 ELSE 0, interval, LatestDayNow(p),
                                LatestDayNow(p) + interval,
                                LatestNow(p).last_result)

C18_Seeding == [][C18_SeedStep]_vars

\* C18 witness: a tracked win seeded an entry with streak 1 and an interval
\* from a win cadence that differs from the loss cadence.
C18_Witness ==
    /\ TRACK_WINS
    /\ WIN_CADENCE[1] # LOSS_CADENCE[1]
    /\ RanOk
    /\ lastRun.updated = 1
    /\ \E p \in Puzzles :
           /\ InScope(p)
           /\ AttemptsOf(attempts, p) = {Row(p, Stamp(clock, 0), "win")}
           /\ srs[p] = Entry(1, WIN_CADENCE[1], Today, Today + WIN_CADENCE[1], "win")

\* The entry at cadence position n, clamped to the last one (n >= 1).
Clamped(cad, n) == cad[IF n <= Len(cad) THEN n ELSE Len(cad)]

\* Existing entries of streaks reaching beyond both cadences.
LongStreaks == 0..9

\* C19: with wins tracked, a run that meets a latest win of a puzzle with an
\* entry writes streak = old streak + 1, interval = win_cadence at the new
\* streak (clamped to the last entry), last_reviewed = the attempt's local
\* date and due_date = last_reviewed + interval.
C19_WinStep ==
    \A p \in Puzzles :
        (/\ TRACK_WINS
         /\ ProcessedOkNow(p)
         /\ srs[p] # None
         /\ LatestNow(p).last_result = "win") =>
            LET streak   == srs[p].success_streak + 1
                interval == Clamped(WIN_CADENCE, streak)
            IN  srs'[p] = Entry(streak, interval, LatestDayNow(p),
                                LatestDayNow(p) + interval, "win")

C19_AnyStreak ==
    TRACK_WINS =>
        \A p \in Puzzles, s \in LongStreaks, day \in Days :
            _calc_update(Entry(s, 1, 0, 1, "loss"), "win", day, p) =
                Update(s + 1, Clamped(WIN_CADENCE, s + 1), day, TRUE)

C19_TrackedWinOnEntry == [][C19_WinStep]_vars /\ []C19_AnyStreak

\* C19 witness: a tracked win took an entry to streak 2 and to the second
\* interval of a win cadence whose first two intervals differ.
C19_Witness ==
    /\ TRACK_WINS
    /\ Len(WIN_CADENCE) >= 2
    /\ WIN_CADENCE[2] # WIN_CADENCE[1]
    /\ RanOk
    /\ \E p \in Puzzles :
           /\ InScope(p)
           /\ Latest(p).last_result = "win"
           /\ srs[p] = Entry(2, WIN_CADENCE[2], _local_date_of_iso(Latest(p).last_attempt),
                             _local_date_of_iso(Latest(p).last_attempt) + WIN_CADENCE[2],
                             "win")

\* C20: a run that meets a latest loss of a puzzle with an entry writes
\* streak 0 if reset_on_fail, else max(old streak - 1, 0), and interval =
\* loss_cadence at max(new streak, 1); with reset_on_fail an entry of any
\* streak goes to streak 0 and loss_cadence[0].
C20_LossStep ==
    \A p \in Puzzles :
        (/\ ProcessedOkNow(p)
         /\ srs[p] # None
         /\ LatestNow(p).last_result = "loss") =>
            LET streak   == IF RESET_ON_FAIL THEN 0
                            ELSE Max(srs[p].success_streak - 1, 0)
                interval == Clamped(LOSS_CADENCE, Max(streak, 1))
            IN  srs'[p] = Entry(streak, interval, LatestDayNow(p),
                                LatestDayNow(p) + interval, "loss")

C20_AnyStreak ==
    \A p \in Puzzles, s \in LongStreaks, day \in Days :
        _calc_update(Entry(s, 1, 0, 1, "win"), "loss", day, p) =
            IF RESET_ON_FAIL
            THEN Update(0, LOSS_CADENCE[1], day, FALSE)
            ELSE Update(Max(s - 1, 0), Clamped(LOSS_CADENCE, Max(Max(s - 1, 0), 1)),
                        day, FALSE)

C20_LossOnEntry == [][C20_LossStep]_vars /\ []C20_AnyStreak

\* C20 witness: with reset_on_fail off, a loss took an entry of streak 2 down
\* to streak 1.
C20_Witness ==
    /\ ~RESET_ON_FAIL
    /\ RanOk
    /\ \E p \in Puzzles :
           /\ InScope(p)
           /\ Latest(p).last_result = "loss"
           /\ srs[p] # None
           /\ srs[p].last_result = "loss"
           /\ srs[p].success_streak = 1
           /\ srs[p].interval_days = LOSS_CADENCE[1]

\* The cadence _next_interval_days looks the interval up in.
CadenceFor(for_win) == IF for_win /\ TRACK_WINS THEN WIN_CADENCE ELSE LOSS_CADENCE

\* Streaks from 0 to beyond the longest cadence (the defaults have 8 and 7
\* entries).
LookupStreaks == 0..12

\* C21: the cadence lookup saturates: for a streak s >= 1 the interval is the
\* cadence entry at position min(s, len) (1-based), so every s > len gives the
\* last entry, and the position is inside the cadence for every streak, 0
\* included; the entry a tracked win leaves is looked up this way.
C21_LookupSaturates ==
    /\ \A for_win \in BOOLEAN, s \in LookupStreaks :
           LET cad == CadenceFor(for_win)
               pos == Min(Max(s, 1), Len(cad))
           IN  /\ cad # <<>>
               /\ pos \in DOMAIN cad
               /\ _next_interval_days(s, for_win) = cad[pos]
               /\ s > Len(cad) =>
                      /\ _next_interval_days(s, for_win) = cad[Len(cad)]
                      /\ _next_interval_days(s, for_win) =
                             _next_interval_days(Len(cad), for_win)
    /\ \A p \in Puzzles :
           (TRACK_WINS /\ srs[p] # None /\ srs[p].last_result = "win") =>
               srs[p].interval_days =
                   WIN_CADENCE[Min(srs[p].success_streak, Len(WIN_CADENCE))]

\* C21 witness: a run wrote a win entry whose streak is past the end of the
\* win cadence, with the cadence's last interval.
C21_Witness ==
    /\ TRACK_WINS
    /\ RanOk
    /\ \E p \in Puzzles :
           /\ InScope(p)
           /\ srs[p] # None
           /\ srs[p].last_result = "win"
           /\ srs[p].success_streak > Len(WIN_CADENCE)
           /\ srs[p].interval_days = WIN_CADENCE[Len(WIN_CADENCE)]

\* (base % stagger_buckets) with bucket 0 remapped to 1, base being the hash
\* Python computes for the id.
StaggerBucket(p) ==
    LET r == StaggerHash[p] % STAGGER_BUCKETS
    IN  IF r = 0 THEN 1 ELSE r

C22_SeedInRange ==
    (SEED_MODE = "stagger" /\ STAGGER_BUCKETS >= 1) =>
        \A p \in DOMAIN PuzzlePool :
            /\ _seed_offset_days(p) = StaggerBucket(p)
            /\ _seed_offset_days(p) \in 1..STAGGER_BUCKETS

C22_SeedStep ==
    \A pid \in DOMAIN PuzzlePool :
        (/\ SEED_MODE = "stagger"
         /\ STAGGER_BUCKETS >= 1
         /\ ExecGetExisting(srs_rows, pid) = None
         /\ ExecGetExisting(srs_rows', pid) # None) =>
            LET e == ExecGetExisting(srs_rows', pid)
            IN  /\ e.interval_days \in 1..STAGGER_BUCKETS
                /\ e.interval_days = StaggerBucket(pid)
                /\ e.due_date = e.last_reviewed + e.interval_days
                /\ e.due_date > e.last_reviewed

\* C22: with seed_mode = stagger and stagger_buckets >= 1 the seed interval of
\* every puzzle id lies in 1..stagger_buckets: it is the 31-bit hash of the id
\* modulo stagger_buckets with bucket 0 remapped to 1, so the entry a first
\* loss creates is due after the day it was reviewed.
C22_StaggerInRange == [][C22_SeedStep]_vars /\ []C22_SeedInRange

\* C22 witness: first losses seeded one entry whose bucket 0 was remapped to
\* interval 1 and another entry with an interval of several days.
C22_Witness ==
    /\ SEED_MODE = "stagger"
    /\ STAGGER_BUCKETS > 1
    /\ \E r1, r2 \in srs_rows :
           /\ StaggerHash[r1.puzzle_id] % STAGGER_BUCKETS = 0
           /\ r1.interval_days = 1
           /\ r1.due_date = r1.last_reviewed + 1
           /\ r2.interval_days > 1
           /\ r2.interval_days = StaggerHash[r2.puzzle_id] % STAGGER_BUCKETS
           /\ r2.due_date = r2.last_reviewed + r2.interval_days

\* The attempts of p, after this step, that no other attempt of p follows in
\* the order the store keeps attempted_at in.
GreatestNow(p) ==
    {a \in AttemptsOf(attempts', p) :
        \A b \in AttemptsOf(attempts', p) :
            ~IsoLess(a.attempted_at, b.attempted_at)}

C23_Step ==
    \A p \in Puzzles :
        (ProcessedOkNow(p) /\ srs'[p] # None) =>
            \E a \in GreatestNow(p) :
                /\ GreatestNow(p) = {a}
                /\ srs'[p].last_result = a.result
                /\ srs'[p].last_reviewed = _local_date_of_iso(a.attempted_at)

C24_UntrackedEntriesAtStreakZero ==
    ~TRACK_WINS =>
        /\ \A p \in Puzzles :
               srs[p] # None =>
                   /\ srs[p].last_result = "loss"
                   /\ srs[p].success_streak = 0
                   /\ srs[p].interval_days \in {SeedInterval(p), LOSS_CADENCE[1]}
        /\ \A p \in Puzzles, day \in Days :
               /\ _calc_update(Entry(0, 1, 0, 1, "loss"), "loss", day, p) =
                      Update(0, LOSS_CADENCE[1], day, FALSE)
               /\ _calc_update(None, "loss", day, p) =
                      Update(0, SeedInterval(p), day, FALSE)

\* C24 witness: wins untracked, a loss cadence whose second interval differs
\* from its first, and a puzzle lost twice whose entry holds streak 0 and
\* loss_cadence[0], which is not the seed interval.
C24_Witness ==
    /\ ~TRACK_WINS
    /\ Len(LOSS_CADENCE) >= 2
    /\ LOSS_CADENCE[2] # LOSS_CADENCE[1]
    /\ RanOk
    /\ \E p \in Puzzles :
           /\ InScope(p)
           /\ Cardinality(AttemptsOf(attempts, p)) >= 2
           /\ \A a \in AttemptsOf(attempts, p) : a.result = "loss"
           /\ srs[p] # None
           /\ srs[p].success_streak = 0
           /\ srs[p].last_result = "loss"
           /\ srs[p].interval_days = LOSS_CADENCE[1]
           /\ srs[p].interval_days # SeedInterval(p)

\* The lists of puzzles a caller may pass as changed_pids.
ChangedLists ==
    {<<>>} \cup {<<p>> : p \in Puzzles} \cup {<<p, q>> : p, q \in Puzzles}

Names(list) == {list[k] : k \in DOMAIN list}

C25_Frame ==
    \A S \in ChangedLists, fail_at \in 0..NumPuzzles :
        LET out == run(attempts, srs, Some(S), fail_at)
        IN  /\ \A p \in Puzzles \ Names(S) : out.srs[p] = srs[p]
            /\ S = <<>> =>
                   /\ out.srs = srs
                   /\ out.status = "ok"
                   /\ out.updated = 0
                   /\ out.deleted = 0

C25_Step ==
    lastRun'.changed_pids # None =>
        \A p \in Puzzles \ Names(lastRun'.changed_pids.val) : srs'[p] = srs[p]

\* C25: run(changed_pids=S) leaves the entry, or the absence of one, of every
\* puzzle outside S as it was, and run(changed_pids=[]) changes nothing.
C25_IncrementalFrame == [][C25_Step]_vars /\ []C25_Frame

\* C25 witness: an incremental run wrote the entry of one puzzle while another
\* puzzle, which a full run would change, kept what it had.
C25_Witness ==
    /\ RanOk
    /\ lastRun.updated = 1
    /\ \E p, q \in Puzzles :
           /\ p # q
           /\ lastRun.changed_pids = Some(<<p>>)
           /\ srs[p] # None
           /\ HasAttempts(q)
           /\ Latest(q).last_attempt.ok
           /\ run(attempts, srs, None, 0).srs[q] # srs[q]
           /\ run(attempts, srs, Some(<<>>), 0).srs = srs

Failures == {"ValueError", "OperationalError"}

C26_Step ==
    (lastRun'.ran /\ lastRun'.status \in Failures) => srs' = srs

C26_Rollback ==
    \A cp \in {None} \cup {Some(<<p>>) : p \in Puzzles}, fail_at \in 0..NumPuzzles :
        LET out == run(attempts, srs, cp, fail_at)
        IN  out.status \in Failures => out.srs = srs

\* C26: run() is all-or-nothing: when the timestamp parse or a store statement
\* raises at some puzzle, table srs is left as it was before the run, the
\* puzzles processed before the failing one included.
C26_AllOrNothing == [][C26_Step]_vars /\ []C26_Rollback

\* C26 witness: a full run failed at the second puzzle after it had written
\* the first one's entry, and the first puzzle's entry is still the old one.
C26_Witness ==
    /\ lastRun.ran
    /\ lastRun.changed_pids = None
    /\ lastRun.status \in Failures
    /\ lastRun.at = 2
    /\ HasAttempts(1)
    /\ Latest(1).last_attempt.ok
    /\ Trackable(Latest(1).last_result)
    /\ srs[1] = None
    /\ run(attempts, srs, Some(<<1>>), 0).srs[1] # None

C27_Bounded ==
    /\ syncer.pc \in {"idle", "loop", "done", "gave_up"}
    /\ syncer.tries \in 0..4
    /\ syncer.pc = "loop" => syncer.tries <= 3
    /\ syncer.pc = "gave_up" => syncer.tries = 4
    /\ syncer.pc = "done" => syncer.tries \in 1..4

C27_Step ==
    (syncer.pc = "loop" /\ syncer' # syncer) =>
        /\ syncer'.tries = syncer.tries + 1
        /\ syncer'.pc \in {"loop", "done", "gave_up"}
        /\ syncer'.pc = "loop" => syncer'.tries <= 3
        /\ (syncer'.tries <= 3) => syncer'.pc \in {"loop", "done"}
        /\ (syncer'.tries = 4) => syncer'.pc \in {"done", "gave_up"}

\* C27: sync_attempts.run() always returns and never with a network error:
\* a fetch that raises RequestException is retried while tries <= 3 and the
\* 4th failure ends the run (at most 4 fetches), and the first fetch that
\* succeeds ends it.
C27_SyncTerminates ==
    /\ []C27_Bounded
    /\ [][C27_Step]_vars
    /\ (syncer.pc = "loop") ~> (syncer.pc \in {"done", "gave_up"})

\* C27 witness: every fetch of a run raised, and the run gave up after its
\* 4th try, with what the broken fetches had stored.
C27_Witness ==
    /\ syncer.pc = "gave_up"
    /\ syncer.tries = 4
    /\ attempts # {}

\* C28: a sync whose fetch succeeds leaves every attempt of the remote feed in
\* table attempts, whatever /log stored before: the `ms <= since_ms` skip
\* drops no remote attempt that is not stored yet.
C28_SyncStoresWholeFeed ==
    \A feed \in FeedsUpTo(MaxFeed) :
        \A obj \in feed :
            HasKey(SyncAttempts(attempts, feed), obj.puzzle_id,
                   _iso_from_ms(obj.date))

\* This step served a /log request.
ServedNow == lastRun'.http # 0

C29_Step ==
    ServedNow =>
        LET req == lastRun'.req
        IN  IF req.pid = 0 \/ req.result \notin Results
            THEN /\ lastRun'.http = 400
                 /\ attempts' = attempts
                 /\ srs' = srs
                 /\ ~lastRun'.ran
            ELSE /\ \E a \in attempts' \ attempts :
                        /\ attempts' = attempts \cup {a}
                        /\ a.puzzle_id = req.pid
                        /\ a.result = req.result
                 /\ lastRun'.ran
                 /\ lastRun'.changed_pids = Some(<<req.pid>>)
                 /\ \A q \in Puzzles \ {req.pid} : srs'[q] = srs[q]

\* C29: /log validates before acting: a request with an empty puzzle_id or a
\* result other than win/loss (in any case) gets 400, inserts no attempt and
\* starts no recompute; a valid request inserts exactly one attempt for its
\* puzzle and then starts an incremental recompute for that puzzle only.
C29_ValidateThenAct == [][C29_Step]_vars

C30_Step ==
    \A p \in Puzzles :
        (/\ lastRun'.ran
         /\ lastRun'.changed_pids = Some(<<p>>)
         /\ lastRun'.status \in Failures) =>
            LET new == Row(p, Stamp(clock, 0), lastRun'.req.result)
            IN  /\ lastRun'.http = 500
                /\ new \notin attempts
                /\ attempts' = attempts \cup {new}
                /\ srs' = srs

C30_RecoverStep ==
    \A p \in Puzzles : ProcessedOkNow(p) => ReflectsNext(p)

\* C30: /log commits the attempt before the recompute starts and the
\* recompute never takes it back: when the incremental recompute raises, the
\* handler answers 500, the new attempt stays in table attempts and table srs
\* keeps the contents it had before the request; the entry is brought up to
\* date by the next recompute of the puzzle that finishes.
C30_AttemptSurvivesFailedRecompute == [][C30_Step /\ C30_RecoverStep]_vars

\* C30 witness: a /log was answered 500 because its recompute raised; the
\* attempt is stored, is the puzzle's latest, and the puzzle's entry does not
\* reflect it.
C30_Witness ==
    /\ lastRun.ran
    /\ lastRun.http = 500
    /\ lastRun.status \in Failures
    /\ \E p \in Puzzles :
           /\ lastRun.changed_pids = Some(<<p>>)
           /\ Row(p, Stamp(clock, 0), lastRun.req.result) \in attempts
           /\ Latest(p).last_attempt = Stamp(clock, 0)
           /\ ~Reflects(p)

====
